---- MODULE Spec2Model ----
(***************************************************************************)
(* Live-update fan-out core of the ask-me-anything API                     *)
(* (internal/api/api.go): the subscribers registry, the registry mutex,    *)
(* the subscribe handler (one session per accepted request) and            *)
(* notifyClients (one goroutine per successful write request).             *)
(*                                                                         *)
(* A connection is identified by the session that obtained it from the     *)
(* upgrader; a failed upgrade yields the nil connection, NilConn, which    *)
(* handleSubscribe goes on to use because it does not return after the     *)
(* error (api.go:113-118).  A cancel function is identified by the session *)
(* whose context it cancels.                                               *)
(*                                                                         *)
(* A frame is the JSON object WriteJSON encodes from schema.Message, kept  *)
(* as the sequence of its <<key, value>> members.  RegistrySpec applies    *)
(* the two registry operations of handleSubscribe on their own.            *)
(***************************************************************************)
EXTENDS Integers, Sequences, FiniteSets, TLC

\* ---------------------------------------------------------------- bounds
MaxSessions == 2
MaxEvents == 2
MaxOps == 3

Sessions == 1..MaxSessions
Events == 1..MaxEvents
RoomOrder == <<"r1", "r2">>
Rooms == {RoomOrder[i] : i \in 1..Len(RoomOrder)}

\* ------------------------------------------------------ program constants
KindMessageCreated == "message_created"
KindMessageReactionIncreased == "message_reaction_increased"
KindMessageReactionDecreased == "message_reaction_decreased"
KindMessageAnswered == "message_answered"

\* the nil *websocket.Conn Upgrade returns together with an error
NilConn == 0
Conns == {NilConn} \cup Sessions

\* values of the mutex: unlocked, or locked by a session or by a fan-out
Free == <<"free", 0>>
BySession(s) == <<"session", s>>
ByNotify(e) == <<"notify", e>>

NoRoom == "none"
NoKind == "none"
\* the Value of a request that built no schema.Message
NoValue == [ID |-> "none"]

VARIABLES
  subscribers,  \* h.subscribers: room -> (conn -> cancel), a partial map
  mu,           \* h.mu
  crashed,      \* the process died of an unrecovered panic
  spc,          \* handleSubscribe: position of each session
  sroom,        \* handleSubscribe: roomID
  sconn,        \* handleSubscribe: conn
  sstatus,      \* handleSubscribe: status written to the caller (0: none)
  ctxDone,      \* handleSubscribe: ctx is cancelled
  broken,       \* the transport of a connection fails every write
  cancelCalls,  \* how often each cancel function was invoked
  deregCount,   \* how often each session ran its delete (api.go:134)
  closeCount,   \* how often each connection was closed (api.go:118)
  rpc,          \* write handler: position of each request
  rstatus,      \* write handler: status of the response (0: none)
  before,       \* requests that had responded when this one arrived
  ev,           \* schema.Message of the request: Kind, RoomID and Value
  ppc,          \* notifyClients: position of each fan-out
  todo,         \* notifyClients: map entries the range has not reached
  cur,          \* notifyClients: conn of the iteration in progress
  curCancel,    \* notifyClients: cancel of the iteration in progress
  members,      \* connections of the room when the fan-out looked it up
  attempts,     \* WriteJSON calls of each fan-out, per connection
  failed,       \* connections whose WriteJSON returned an error
  cancelled,    \* cancel functions each fan-out invoked
  recv,         \* fan-outs whose frame each connection received, in order
  wire,         \* the frames themselves, as WriteJSON encoded them
  ops           \* registry operations applied so far (registry harness)

svars == <<spc, sroom, sconn, sstatus, ctxDone, cancelCalls, deregCount, closeCount>>
rvars == <<rpc, rstatus, before, ev>>
pvars == <<ppc, todo, cur, curCancel, members, attempts, failed, cancelled, recv, wire>>
vars == <<subscribers, mu, crashed, broken, svars, rvars, pvars, ops>>

\* ------------------------------------------------------- registry helpers
\* A register that is no upsert: registering a key that is present removes it.
registerToggle(subs, room, conn, cancel) ==
  LET old == IF room \in DOMAIN subs THEN subs[room] ELSE << >>
      dom == IF conn \in DOMAIN old THEN DOMAIN old \ {conn} ELSE DOMAIN old \cup {conn}
      new == [c \in dom |-> IF c = conn THEN cancel ELSE old[c]]
  IN  [r \in DOMAIN subs \cup {room} |-> IF r = room THEN new ELSE subs[r]]

\* api.go:123-128: create the room's map when missing, then upsert conn
register(subs, room, conn, cancel) ==
  LET old == IF room \in DOMAIN subs THEN subs[room] ELSE << >>
      new == [c \in DOMAIN old \cup {conn} |-> IF c = conn THEN cancel ELSE old[c]]
  IN  [r \in DOMAIN subs \cup {room} |-> IF r = room THEN new ELSE subs[r]]

\* A deregistration that prunes: the room key goes with its last connection.
deregisterPrune(subs, room, conn) ==
  IF room \in DOMAIN subs
    THEN IF DOMAIN subs[room] \subseteq {conn}
           THEN [r \in DOMAIN subs \ {room} |-> subs[r]]
           ELSE [subs EXCEPT ![room] = [c \in DOMAIN @ \ {conn} |-> @[c]]]
    ELSE subs

\* api.go:134: delete(h.subscribers[room], conn); no-op for an absent key
deregister(subs, room, conn) ==
  IF room \in DOMAIN subs
    THEN [subs EXCEPT ![room] = [c \in DOMAIN @ \ {conn} |-> @[c]]]
    ELSE subs

\* A cancel function that is not idempotent: a second call undoes the first.
cancelToggle(done, s) == [done EXCEPT ![s] = ~@]

\* context.CancelFunc: the first call closes Done, later calls do nothing
cancel(done, s) == [done EXCEPT ![s] = TRUE]

Init ==
  /\ subscribers = << >>
  /\ mu = Free
  /\ crashed = FALSE
  /\ spc = [s \in Sessions |-> "idle"]
  /\ sroom = [s \in Sessions |-> NoRoom]
  /\ sconn = [s \in Sessions |-> NilConn]
  /\ sstatus = [s \in Sessions |-> 0]
  /\ ctxDone = [s \in Sessions |-> FALSE]
  /\ broken = [s \in Sessions |-> FALSE]
  /\ cancelCalls = [s \in Sessions |-> 0]
  /\ deregCount = [s \in Sessions |-> 0]
  /\ closeCount = [s \in Sessions |-> 0]
  /\ rpc = [e \in Events |-> "idle"]
  /\ rstatus = [e \in Events |-> 0]
  /\ before = [e \in Events |-> {}]
  /\ ev = [e \in Events |-> [kind |-> NoKind, room |-> NoRoom, value |-> NoValue]]
  /\ ppc = [e \in Events |-> "none"]
  /\ todo = [e \in Events |-> {}]
  /\ cur = [e \in Events |-> NilConn]
  /\ curCancel = [e \in Events |-> 0]
  /\ members = [e \in Events |-> {}]
  /\ attempts = [e \in Events |-> [c \in Conns |-> 0]]
  /\ failed = [e \in Events |-> {}]
  /\ cancelled = [e \in Events |-> {}]
  /\ recv = [c \in Conns |-> << >>]
  /\ wire = [c \in Conns |-> << >>]
  /\ ops = << >>

\* Rooms are interchangeable, so the rooms of a run are named in the order
\* in which requests first mention them.
UsedRooms == ({sroom[s] : s \in Sessions} \cup {ev[e].room : e \in Events}) \ {NoRoom}
RoomChoice ==
  {RoomOrder[i] : i \in {j \in 1..Len(RoomOrder) :
                           \A k \in 1..(j - 1) : RoomOrder[k] \in UsedRooms}}

\* ------------------------------------------------------- handleSubscribe
\* api.go:93-120.  found: GetRoom found the room; upOk: Upgrade succeeded.
\* After a failed upgrade the handler writes 400 and goes on with conn = nil.
\* The returns of api.go:95-111 are the one outcome ~found (status 404), so
\* a status of 400 marks the failed upgrade.
handleSubscribe(s, room, found, upOk) ==
  /\ ~crashed
  /\ spc[s] = "idle"
  /\ \A t \in Sessions : t < s => spc[t] # "idle"
  /\ IF ~found
       THEN /\ spc' = [spc EXCEPT ![s] = "returned"]
            /\ sstatus' = [sstatus EXCEPT ![s] = 404]
            /\ UNCHANGED <<sroom, sconn>>
       ELSE /\ spc' = [spc EXCEPT ![s] = "accepted"]
            /\ sroom' = [sroom EXCEPT ![s] = room]
            /\ sconn' = [sconn EXCEPT ![s] = IF upOk THEN s ELSE NilConn]
            /\ sstatus' = [sstatus EXCEPT ![s] = IF upOk THEN 101 ELSE 400]
  /\ UNCHANGED <<subscribers, mu, crashed, broken, ctxDone, cancelCalls,
                 deregCount, closeCount, rvars, ops, pvars>>

\* api.go:122: h.mu.Lock()
SubscribeLock(s) ==
  /\ ~crashed
  /\ spc[s] = "accepted"
  /\ mu = Free
  /\ mu' = BySession(s)
  /\ spc' = [spc EXCEPT ![s] = "registering"]
  /\ UNCHANGED <<subscribers, crashed, broken, sroom, sconn, sstatus, ctxDone,
                 cancelCalls, deregCount, closeCount, rvars, ops, pvars>>

\* api.go:123-129: register under the lock, then h.mu.Unlock()
SubscribeRegister(s) ==
  /\ ~crashed
  /\ spc[s] = "registering"
  /\ subscribers' = register(subscribers, sroom[s], sconn[s], s)
  /\ mu' = Free
  /\ spc' = [spc EXCEPT ![s] = "active"]
  /\ UNCHANGED <<crashed, broken, sroom, sconn, sstatus, ctxDone,
                 cancelCalls, deregCount, closeCount, rvars, ops, pvars>>

\* The deregistration without waiting for the mutex.
SubscribeRelockNoMutex(s) ==
  /\ ~crashed
  /\ spc[s] = "active"
  /\ ctxDone[s]
  /\ spc' = [spc EXCEPT ![s] = "deregistering"]
  /\ UNCHANGED <<subscribers, mu, crashed, broken, sroom, sconn, sstatus, ctxDone,
                 cancelCalls, deregCount, closeCount, rvars, ops, pvars>>

\* api.go:131-133: <-ctx.Done() returns once the context is cancelled, and
\* h.mu.Lock() returns once the mutex is free
SubscribeRelock(s) ==
  /\ ~crashed
  /\ spc[s] = "active"
  /\ ctxDone[s]
  /\ mu = Free
  /\ mu' = BySession(s)
  /\ spc' = [spc EXCEPT ![s] = "deregistering"]
  /\ UNCHANGED <<subscribers, crashed, broken, sroom, sconn, sstatus, ctxDone,
                 cancelCalls, deregCount, closeCount, rvars, ops, pvars>>

\* api.go:134-136: delete under the lock, h.mu.Unlock(), and on return the
\* deferred conn.Close() of api.go:118.  On the nil connection Close panics;
\* the panic is in the handler's goroutine, where gin.Recovery (api.go:47)
\* recovers it.
SubscribeDeregister(s) ==
  /\ ~crashed
  /\ spc[s] = "deregistering"
  /\ subscribers' = deregister(subscribers, sroom[s], sconn[s])
  /\ deregCount' = [deregCount EXCEPT ![s] = @ + 1]
  /\ mu' = Free
  /\ IF sconn[s] = NilConn
       THEN /\ spc' = [spc EXCEPT ![s] = "panicked"]
            /\ UNCHANGED closeCount
       ELSE /\ spc' = [spc EXCEPT ![s] = "closed"]
            /\ closeCount' = [closeCount EXCEPT ![s] = @ + 1]
  /\ UNCHANGED <<crashed, broken, sroom, sconn, sstatus, ctxDone,
                 cancelCalls, rvars, ops, pvars>>

\* api.go:120: ctx is derived from c.Request.Context(); the parent context
\* being cancelled (client gone, server shutting down) cancels ctx as well.
\* A cancellation that comes before the session is registered has its
\* effect at api.go:131 all the same, so it is taken there.
RequestContextDone(s) ==
  /\ ~crashed
  /\ spc[s] = "active"
  /\ ~ctxDone[s]
  /\ ctxDone' = cancel(ctxDone, s)
  /\ UNCHANGED <<subscribers, mu, crashed, broken, spc, sroom, sconn, sstatus,
                 cancelCalls, deregCount, closeCount, rvars, ops, pvars>>

\* The peer of an upgraded connection goes away: from now on every write on
\* the connection returns an error (api.go:86, err != nil).  Only writes to
\* registered connections happen, so the failure is taken while registered.
TransportBreak(s) ==
  /\ ~crashed
  /\ spc[s] = "active"
  /\ sconn[s] # NilConn
  /\ ~broken[s]
  /\ broken' = [broken EXCEPT ![s] = TRUE]
  /\ UNCHANGED <<subscribers, mu, crashed, svars, rvars, ops, pvars>>

\* ----------------------------------------------------------- wire format
\* The fields of each struct in declaration order, with the name its json
\* tag gives it ("" when the field has no tag).
MessageFields ==
  << [name |-> "Kind", tag |-> "kind"],
     [name |-> "Value", tag |-> "value"],
     [name |-> "RoomID", tag |-> "-"] >>

MessageCreatedEventFields ==
  << [name |-> "ID", tag |-> ""], [name |-> "Message", tag |-> ""] >>

MessageReactionCountChangedEventFields ==
  << [name |-> "ID", tag |-> ""], [name |-> "Count", tag |-> ""] >>

MessageAnsweredEventFields ==
  << [name |-> "ID", tag |-> ""] >>

\* the struct type the handlers put in Message.Value for each kind
valueFields(kind) ==
  CASE kind = KindMessageCreated -> MessageCreatedEventFields
    [] kind = KindMessageAnswered -> MessageAnsweredEventFields
    [] OTHER -> MessageReactionCountChangedEventFields

\* encoding/json: a field tagged "-" is left out, a field with a tag name
\* gets that name as its key, a field without one its Go name
jsonKey(f) == IF f.tag = "" THEN f.name ELSE f.tag

\* json.Marshal of a struct: the object as the sequence of its <<key, value>>
\* members, in declaration order
Marshal(fields, v) ==
  LET kept == SelectSeq(fields, LAMBDA f : f.tag # "-")
  IN  [i \in 1..Len(kept) |-> <<jsonKey(kept[i]), v[kept[i].name]>>]

\* api.go:86: conn.WriteJSON(msg) sends json.Marshal(msg) as one frame; the
\* struct in Value is encoded in its place
WriteJSON(msg) ==
  Marshal(MessageFields,
          [Kind |-> msg.Kind,
           Value |-> Marshal(valueFields(msg.Kind), msg.Value),
           RoomID |-> msg.RoomID])

\* ids the store hands out (a request for message i works on the i-th of
\* them) and the text of a created message
MessageIDs == <<"m1", "m2", "m3", "m4">>
messageID(e) == MessageIDs[((e - 1) % Len(MessageIDs)) + 1]
Body == "hi"

\* the Value each handler builds (api.go:238-241, 376-379, 428-431, 480-482);
\* the counter is the one the store returned
eventValue(e, kind) ==
  CASE kind = KindMessageCreated -> [ID |-> messageID(e), Message |-> Body]
    [] kind = KindMessageReactionIncreased -> [ID |-> messageID(e), Count |-> 1]
    [] kind = KindMessageReactionDecreased -> [ID |-> messageID(e), Count |-> 0]
    [] OTHER -> [ID |-> messageID(e)]

\* -------------------------------------------------------- write handlers
\* Outcome of the lookups and of the store mutation of a write request.
Outcomes == {"ok", "bad_request", "not_found", "error"}

ErrStatus(res) ==
  CASE res = "bad_request" -> 400
    [] res = "not_found" -> 404
    [] OTHER -> 500

OkStatus(kind) == IF kind = KindMessageCreated THEN 201 ELSE 200

\* A write handler that starts the fan-out before it knows the outcome of
\* its lookups and of the mutation.
writeRequestEager(e, kind, room, res) ==
  /\ ~crashed
  /\ rpc[e] = "idle"
  /\ \A f \in Events : f < e => rpc[f] # "idle"
  /\ before' = [before EXCEPT ![e] = {f \in Events : rpc[f] = "responded"}]
  /\ rpc' = [rpc EXCEPT ![e] = "responded"]
  /\ ev' = [ev EXCEPT ![e] = [kind |-> kind, room |-> room,
                               value |-> eventValue(e, kind)]]
  /\ ppc' = [ppc EXCEPT ![e] = "start"]
  /\ rstatus' = [rstatus EXCEPT ![e] = IF res = "ok" THEN OkStatus(kind) ELSE ErrStatus(res)]
  /\ UNCHANGED <<subscribers, mu, crashed, broken, svars, ops, todo, cur, curCancel,
                 members, attempts, failed, cancelled, recv, wire>>

\* The part the four write handlers share: every failed lookup or mutation
\* responds with its error status and returns; after a successful mutation
\* the handler starts `go h.notifyClients(schema.Message{Kind, RoomID, Value})`
\* and responds, without waiting for the goroutine.  A handler touches
\* nothing the other processes share, so it is one step; requests then
\* arrive one after the other's response, which is the case C8 is about.
writeRequest(e, kind, room, res) ==
  /\ ~crashed
  /\ rpc[e] = "idle"
  /\ \A f \in Events : f < e => rpc[f] # "idle"
  /\ before' = [before EXCEPT ![e] = {f \in Events : rpc[f] = "responded"}]
  /\ rpc' = [rpc EXCEPT ![e] = "responded"]
  /\ IF res = "ok"
       THEN /\ ev' = [ev EXCEPT ![e] = [kind |-> kind, room |-> room,
                                         value |-> eventValue(e, kind)]]
            /\ ppc' = [ppc EXCEPT ![e] = "start"]
            /\ rstatus' = [rstatus EXCEPT ![e] = OkStatus(kind)]
       ELSE /\ rstatus' = [rstatus EXCEPT ![e] = ErrStatus(res)]
            /\ UNCHANGED <<ev, ppc>>
  /\ UNCHANGED <<subscribers, mu, crashed, broken, svars, ops, todo, cur, curCancel,
                 members, attempts, failed, cancelled, recv, wire>>

\* api.go:199-245
handleCreateRoomMessage(e, room, res) ==
  writeRequest(e, KindMessageCreated, room, res)

\* api.go:333-385
handleReactToMessage(e, room, res) ==
  /\ res # "bad_request"
  /\ writeRequest(e, KindMessageReactionIncreased, room, res)

\* api.go:387-437
handleRemoveReactionFromMessage(e, room, res) ==
  /\ res # "bad_request"
  /\ writeRequest(e, KindMessageReactionDecreased, room, res)

\* api.go:439-487
handleMarkMessageAsAnswered(e, room, res) ==
  /\ res # "bad_request"
  /\ writeRequest(e, KindMessageAnswered, room, res)

\* --------------------------------------------------------- notifyClients
\* the msg argument of the notifyClients call of request e
Message(e) == [Kind |-> ev[e].kind, Value |-> ev[e].value, RoomID |-> ev[e].room]

\* The lookup with the room key ignored: the entries of every room.
anyRoomSubscribers(e) ==
  LET all == UNION {DOMAIN subscribers[r] : r \in DOMAIN subscribers}
  IN  [c \in all |->
         subscribers[CHOOSE r \in DOMAIN subscribers : c \in DOMAIN subscribers[r]][c]]

\* The lookup falling back on some other room when the event's room has no
\* subscriber.
fallbackRoomSubscribers(e) ==
  LET busy == {r \in DOMAIN subscribers : DOMAIN subscribers[r] # {}}
  IN  IF ev[e].room \in busy THEN subscribers[ev[e].room]
      ELSE IF busy # {} THEN subscribers[CHOOSE r \in busy : TRUE]
      ELSE << >>

\* api.go:80: subscribers, ok := h.subscribers[msg.RoomID]; a room without
\* an entry reads as the nil map, which ranges like an empty one
roomSubscribers(e) ==
  IF ev[e].room \in DOMAIN subscribers THEN subscribers[ev[e].room] ELSE << >>

\* notifyClients as a snapshot-then-release publisher would be: the members
\* are copied under the mutex and the mutex is released before the sends.
NotifyLockSnapshot(e) ==
  /\ ~crashed
  /\ ppc[e] = "start"
  /\ mu = Free
  /\ members' = [members EXCEPT ![e] = DOMAIN roomSubscribers(e)]
  /\ todo' = [todo EXCEPT ![e] = DOMAIN roomSubscribers(e)]
  /\ ppc' = [ppc EXCEPT ![e] = IF DOMAIN roomSubscribers(e) = {} THEN "done" ELSE "loop"]
  /\ UNCHANGED <<subscribers, mu, crashed, broken, svars, rvars, ops, cur, curCancel,
                 attempts, failed, cancelled, recv, wire>>

\* notifyClients entering its lookup and range without waiting for the mutex.
NotifyLockNoWait(e) ==
  /\ ~crashed
  /\ ppc[e] = "start"
  /\ members' = [members EXCEPT ![e] = DOMAIN roomSubscribers(e)]
  /\ IF DOMAIN roomSubscribers(e) = {}
       THEN /\ ppc' = [ppc EXCEPT ![e] = "done"]
            /\ UNCHANGED <<mu, todo>>
       ELSE /\ ppc' = [ppc EXCEPT ![e] = "loop"]
            /\ todo' = [todo EXCEPT ![e] = DOMAIN roomSubscribers(e)]
            /\ mu' = ByNotify(e)
  /\ UNCHANGED <<subscribers, crashed, broken, svars, rvars, ops, cur, curCancel,
                 attempts, failed, cancelled, recv, wire>>

\* api.go:77-83 and the deferred Unlock of api.go:78: take the mutex and look
\* the room up; a room without an entry or with an empty map ends the call
\* (the mutex is released), otherwise the range begins with the mutex held.
NotifyLock(e) ==
  /\ ~crashed
  /\ ppc[e] = "start"
  /\ mu = Free
  /\ members' = [members EXCEPT ![e] = DOMAIN roomSubscribers(e)]
  /\ IF DOMAIN roomSubscribers(e) = {}
       THEN /\ ppc' = [ppc EXCEPT ![e] = "done"]
            /\ UNCHANGED <<mu, todo>>
       ELSE /\ ppc' = [ppc EXCEPT ![e] = "loop"]
            /\ todo' = [todo EXCEPT ![e] = DOMAIN roomSubscribers(e)]
            /\ mu' = ByNotify(e)
  /\ UNCHANGED <<subscribers, crashed, broken, svars, rvars, ops, cur, curCancel,
                 attempts, failed, cancelled, recv, wire>>

\* Entries the range over the live map can still produce: an entry deleted
\* before it is reached is not produced (Go's range-over-map rule).
Remaining(e) == todo[e] \cap DOMAIN roomSubscribers(e)

\* api.go:85-86: the range yields some entry (conn, cancel) not yet reached,
\* in no particular order, and WriteJSON is called on conn.
NotifyNext(e, c) ==
  /\ ~crashed
  /\ ppc[e] = "loop"
  /\ c \in Remaining(e)
  /\ cur' = [cur EXCEPT ![e] = c]
  /\ curCancel' = [curCancel EXCEPT ![e] = roomSubscribers(e)[c]]
  /\ todo' = [todo EXCEPT ![e] = Remaining(e) \ {c}]
  /\ attempts' = [attempts EXCEPT ![e][c] = @ + 1]
  /\ ppc' = [ppc EXCEPT ![e] = "writing"]
  /\ UNCHANGED <<subscribers, mu, crashed, broken, svars, rvars, ops,
                 members, failed, cancelled, recv, wire>>

\* api.go:86: WriteJSON returned nil: the frame reached the connection
NotifyWriteOk(e) ==
  /\ ~crashed
  /\ ppc[e] = "writing"
  /\ cur[e] # NilConn
  /\ ~broken[cur[e]]
  /\ recv' = [recv EXCEPT ![cur[e]] = Append(@, e)]
  /\ wire' = [wire EXCEPT ![cur[e]] = Append(@, WriteJSON(Message(e)))]
  /\ ppc' = [ppc EXCEPT ![e] = "loop"]
  /\ cur' = [cur EXCEPT ![e] = NilConn]
  /\ curCancel' = [curCancel EXCEPT ![e] = 0]
  /\ UNCHANGED <<subscribers, mu, crashed, broken, svars, rvars, ops, todo,
                 members, attempts, failed, cancelled>>

\* A publisher that drops a connection from the registry when its write
\* fails, besides calling cancel().
NotifyWriteFailRemove(e) ==
  /\ ~crashed
  /\ ppc[e] = "writing"
  /\ cur[e] # NilConn
  /\ broken[cur[e]]
  /\ subscribers' = deregister(subscribers, ev[e].room, cur[e])
  /\ failed' = [failed EXCEPT ![e] = @ \cup {cur[e]}]
  /\ cancelled' = [cancelled EXCEPT ![e] = @ \cup {curCancel[e]}]
  /\ ctxDone' = cancel(ctxDone, curCancel[e])
  /\ cancelCalls' = [cancelCalls EXCEPT ![curCancel[e]] = @ + 1]
  /\ ppc' = [ppc EXCEPT ![e] = "loop"]
  /\ cur' = [cur EXCEPT ![e] = NilConn]
  /\ curCancel' = [curCancel EXCEPT ![e] = 0]
  /\ UNCHANGED <<mu, crashed, broken, spc, sroom, sconn, sstatus,
                 deregCount, closeCount, rvars, ops, todo, members,
                 attempts, recv, wire>>

\* api.go:86-89: WriteJSON returned an error: log it and call cancel()
NotifyWriteFail(e) ==
  /\ ~crashed
  /\ ppc[e] = "writing"
  /\ cur[e] # NilConn
  /\ broken[cur[e]]
  /\ failed' = [failed EXCEPT ![e] = @ \cup {cur[e]}]
  /\ cancelled' = [cancelled EXCEPT ![e] = @ \cup {curCancel[e]}]
  /\ ctxDone' = cancel(ctxDone, curCancel[e])
  /\ cancelCalls' = [cancelCalls EXCEPT ![curCancel[e]] = @ + 1]
  /\ ppc' = [ppc EXCEPT ![e] = "loop"]
  /\ cur' = [cur EXCEPT ![e] = NilConn]
  /\ curCancel' = [curCancel EXCEPT ![e] = 0]
  /\ UNCHANGED <<subscribers, mu, crashed, broken, spc, sroom, sconn, sstatus,
                 deregCount, closeCount, rvars, ops, todo, members,
                 attempts, recv, wire>>

\* api.go:86 on the nil connection: WriteJSON dereferences its receiver and
\* panics.  The deferred Unlock (api.go:78) runs, and since the goroutine
\* was started by a go statement nothing recovers the panic: the process
\* dies.
NotifyWritePanic(e) ==
  /\ ~crashed
  /\ ppc[e] = "writing"
  /\ cur[e] = NilConn
  /\ mu' = Free
  /\ crashed' = TRUE
  /\ ppc' = [ppc EXCEPT ![e] = "panicked"]
  /\ UNCHANGED <<subscribers, broken, svars, rvars, ops, todo, cur, curCancel,
                 members, attempts, failed, cancelled, recv, wire>>

\* notifyClients returning without the deferred Unlock.
NotifyReturnNoUnlock(e) ==
  /\ ~crashed
  /\ ppc[e] = "loop"
  /\ Remaining(e) = {}
  /\ ppc' = [ppc EXCEPT ![e] = "done"]
  /\ UNCHANGED <<subscribers, mu, crashed, broken, svars, rvars, ops, todo, cur,
                 curCancel, members, attempts, failed, cancelled, recv, wire>>

\* api.go:85, 91 and the deferred Unlock of api.go:78: the range is over
NotifyReturn(e) ==
  /\ ~crashed
  /\ ppc[e] = "loop"
  /\ Remaining(e) = {}
  /\ mu' = Free
  /\ ppc' = [ppc EXCEPT ![e] = "done"]
  /\ UNCHANGED <<subscribers, crashed, broken, svars, rvars, ops, todo, cur, curCancel,
                 members, attempts, failed, cancelled, recv, wire>>

\* ------------------------------------------------------ registry harness
\* The two registry operations of handleSubscribe (api.go:122-129 and
\* 133-135) applied to h.subscribers on their own, in any order and for any
\* room and connection; ops records what was applied.  The i-th operation
\* registers with the cancel function of a context of its own.
ApplyRegister(room, conn) ==
  /\ Len(ops) < MaxOps
  /\ subscribers' = register(subscribers, room, conn, Len(ops) + 1)
  /\ ops' = Append(ops, [op |-> "register", room |-> room, conn |-> conn,
                         cancel |-> Len(ops) + 1])
  /\ UNCHANGED <<mu, crashed, broken, svars, rvars, pvars>>

ApplyDeregister(room, conn) ==
  /\ Len(ops) < MaxOps
  /\ subscribers' = deregister(subscribers, room, conn)
  /\ ops' = Append(ops, [op |-> "deregister", room |-> room, conn |-> conn,
                         cancel |-> 0])
  /\ UNCHANGED <<mu, crashed, broken, svars, rvars, pvars>>

RegistryNext ==
  \/ \E room \in Rooms, conn \in Conns : ApplyRegister(room, conn)
  \/ \E room \in Rooms, conn \in Conns : ApplyDeregister(room, conn)

RegistrySpec == Init /\ [][RegistryNext]_vars

\* ----------------------------------------------------------- the system
Next ==
  \/ \E s \in Sessions, room \in RoomChoice, found \in BOOLEAN, upOk \in BOOLEAN :
       handleSubscribe(s, room, found, upOk)
  \/ \E s \in Sessions : SubscribeLock(s)
  \/ \E s \in Sessions : SubscribeRegister(s)
  \/ \E s \in Sessions : SubscribeRelock(s)
  \/ \E s \in Sessions : SubscribeDeregister(s)
  \/ \E s \in Sessions : RequestContextDone(s)
  \/ \E s \in Sessions : TransportBreak(s)
  \/ \E e \in Events, room \in RoomChoice, res \in Outcomes :
       handleCreateRoomMessage(e, room, res)
  \/ \E e \in Events, room \in RoomChoice, res \in Outcomes :
       handleReactToMessage(e, room, res)
  \/ \E e \in Events, room \in RoomChoice, res \in Outcomes :
       handleRemoveReactionFromMessage(e, room, res)
  \/ \E e \in Events, room \in RoomChoice, res \in Outcomes :
       handleMarkMessageAsAnswered(e, room, res)
  \/ \E e \in Events : NotifyLock(e)
  \/ \E e \in Events, c \in Conns : NotifyNext(e, c)
  \/ \E e \in Events : NotifyWriteOk(e)
  \/ \E e \in Events : NotifyWriteFail(e)
  \/ \E e \in Events : NotifyWritePanic(e)
  \/ \E e \in Events : NotifyReturn(e)

Spec == Init /\ [][Next]_vars

\* Scheduling: a goroutine that can run a step of the program does run it
\* (weak fairness), and a goroutine waiting in Lock gets the mutex when it
\* is released again and again (sync.Mutex hands a starving waiter the
\* mutex: strong fairness).  Requests, broken transports and cancelled
\* request contexts come from outside and are under no obligation.
Fairness ==
  /\ \A s \in Sessions :
       /\ SF_vars(SubscribeLock(s))
       /\ WF_vars(SubscribeRegister(s))
       /\ SF_vars(SubscribeRelock(s))
       /\ WF_vars(SubscribeDeregister(s))
  /\ \A e \in Events :
       /\ SF_vars(NotifyLock(e))
       /\ WF_vars(\E c \in Conns : NotifyNext(e, c))
       /\ WF_vars(NotifyWriteOk(e))
       /\ WF_vars(NotifyWriteFail(e))
       /\ WF_vars(NotifyWritePanic(e))
       /\ WF_vars(NotifyReturn(e))

FairSpec == Spec /\ Fairness


\* ------------------------------------------------------------ properties
Range(q) == {q[i] : i \in 1..Len(q)}

\* the position of frame e in what connection c received (0: not received)
Pos(c, e) ==
  IF e \in Range(recv[c]) THEN CHOOSE i \in 1..Len(recv[c]) : recv[c][i] = e ELSE 0

\* connections in the registry, under any room
Registered == UNION {DOMAIN subscribers[r] : r \in DOMAIN subscribers}

TypeOK ==
  /\ DOMAIN subscribers \subseteq Rooms
  /\ \A r \in DOMAIN subscribers :
       /\ DOMAIN subscribers[r] \subseteq Conns
       /\ \A c \in DOMAIN subscribers[r] : subscribers[r][c] \in Sessions
  /\ mu \in {Free} \cup {BySession(s) : s \in Sessions} \cup {ByNotify(e) : e \in Events}
  /\ crashed \in BOOLEAN
  /\ \A s \in Sessions :
       /\ spc[s] \in {"idle", "returned", "accepted", "registering", "active",
                      "deregistering", "closed", "panicked"}
       /\ sconn[s] \in {NilConn, s}
       /\ cancelCalls[s] \in 0..MaxEvents
  /\ \A e \in Events :
       /\ ppc[e] \in {"none", "start", "loop", "writing", "done", "panicked"}
       /\ todo[e] \subseteq members[e]
       /\ failed[e] \subseteq members[e]

\* connections that got frame e
Delivered(e) == {c \in Conns : e \in Range(recv[c])}

\* how often connection c got frame e
Copies(c, e) == Cardinality({i \in 1..Len(recv[c]) : recv[c][i] = e})

\* C1: a notifyClients call that has ended has called WriteJSON exactly once
\* on every connection its room had (no write, whatever its outcome, keeps
\* the range from reaching the others), each connection got the frame at
\* most once and only if its write did not fail, and exactly the
\* connections whose write failed had their cancel function invoked.
C1_FanoutReachesEverySubscriber ==
  \A e \in Events :
    ppc[e] \in {"done", "panicked"} =>
      /\ \A c \in members[e] : attempts[e][c] = 1
      /\ \A c \in Conns \ members[e] : attempts[e][c] = 0
      /\ Delivered(e) \subseteq members[e] \ failed[e]
      /\ \A c \in Delivered(e) : Copies(c, e) = 1
      /\ cancelled[e] = failed[e]

\* C2: a session whose upgrade failed (the caller got the 400 of api.go:116)
\* stays where the failure was reported: it never takes the mutex, never
\* waits for its context, and the nil connection is in no room's map.
C2_FailedUpgradeNeverRegisters ==
  /\ \A s \in Sessions : sstatus[s] = 400 => spc[s] = "accepted"
  /\ NilConn \notin Registered

Accepted(s) == spc[s] \notin {"idle", "returned"}

\* C4: whatever a fan-out wrote to, delivered to or cancelled belonged to the
\* event's room: the connection was in that room's map when the fan-out
\* looked it up and its session had subscribed to that room.
C4_EventStaysInItsRoom ==
  \A e \in Events :
    /\ \A c \in Conns :
         (attempts[e][c] > 0 \/ c \in Delivered(e)) =>
           /\ c \in members[e]
           /\ \E s \in Sessions :
                Accepted(s) /\ sconn[s] = c /\ sroom[s] = ev[e].room
    /\ \A h \in cancelled[e] : Accepted(h) /\ sroom[h] = ev[e].room

\* a fan-out for one room has ended after reaching that room's subscriber,
\* and a subscriber registered under the other room all along got nothing
C4_Witness ==
  \E e \in Events, s \in Sessions, u \in Sessions :
    /\ ppc[e] = "done"
    /\ (sconn[u] \in Delivered(e) \/ sconn[u] \in failed[e])
    /\ spc[s] = "active"
    /\ sconn[s] # NilConn
    /\ sroom[s] # ev[e].room
    /\ sconn[s] \notin members[e]
    /\ recv[sconn[s]] = << >>
    /\ cancelCalls[s] = 0

\* C5: while a fan-out is ranging over a room, that room's map is exactly
\* what the fan-out found when it looked the room up (no connection is
\* added to or removed from it), and the connection being written to is in
\* the map with the cancel function the range yielded.
C5_RegistryFixedDuringFanout ==
  \A e \in Events :
    ppc[e] \in {"loop", "writing"} =>
      /\ DOMAIN roomSubscribers(e) = members[e]
      /\ ppc[e] = "writing" =>
           /\ cur[e] \in DOMAIN roomSubscribers(e)
           /\ roomSubscribers(e)[cur[e]] = curCancel[e]

\* a fan-out is writing to a connection whose session has been cancelled
\* and is waiting at api.go:133 to deregister it
C5_Witness ==
  \E e \in Events, s \in Sessions :
    /\ ppc[e] = "writing"
    /\ cur[e] = s
    /\ sconn[s] = s
    /\ spc[s] = "active"
    /\ ctxDone[s]

\* C6: once the cancel function of a connection has been invoked, no
\* fan-out calls WriteJSON on that connection again.
C6_NoSendAfterCancel ==
  [][\A e \in Events, c \in Conns :
       attempts'[e][c] > attempts[e][c] => cancelCalls[roomSubscribers(e)[c]] = 0]_vars

\* the session has deregistered and returned
Closed(s) == spc[s] \in {"closed", "panicked"}

\* C7: as long as a session whose cancel function was invoked has not
\* deregistered, the program can still take a step (so that, scheduled
\* fairly, the session gets to deregister); and a session that is closed is
\* not in its room's map.
C7_CancelledSessionCloses ==
  \A s \in Sessions :
    /\ (cancelCalls[s] > 0 /\ ~Closed(s)) => ENABLED Next
    /\ (Closed(s) /\ sconn[s] # NilConn) => sconn[s] \notin Registered

\* Under FairSpec every session whose cancel function was invoked closes
\* unless the process dies first; the crash is the one way C7 fails.
CancelledClosesUnlessCrashed ==
  \A s \in Sessions : (cancelCalls[s] > 0) ~> (Closed(s) \/ crashed)

\* C8: when the request of e1 had been answered before the request of e2
\* for the same room arrived, no connection got e2 before e1.
C8_SequentialRequestsInOrder ==
  \A e1 \in Events, e2 \in Events, c \in Conns :
    (/\ e1 \in before[e2]
     /\ ev[e1].room = ev[e2].room
     /\ Pos(c, e1) > 0
     /\ Pos(c, e2) > 0) => Pos(c, e1) < Pos(c, e2)

\* C9: however often the cancel function of a session is invoked, its
\* context stays cancelled; the session runs its delete and closes its
\* connection at most once, exactly once when it has returned; its delete
\* leaves the registry without its connection, also when the key was
\* already absent.
C9_CancelAndDeregisterIdempotent ==
  \A s \in Sessions :
    /\ cancelCalls[s] > 0 => ctxDone[s]
    /\ deregCount[s] <= 1
    /\ closeCount[s] <= 1
    /\ Closed(s) => deregCount[s] = 1
    /\ spc[s] = "closed" => closeCount[s] = 1 /\ sconn[s] \notin Registered

\* two fan-outs invoked the cancel function of a session before it
\* deregistered, and the session then deregistered and closed once
C9_Witness ==
  \E s \in Sessions :
    /\ cancelCalls[s] >= 2
    /\ spc[s] = "closed"
    /\ deregCount[s] = 1
    /\ closeCount[s] = 1

\* C10: a notifyClients call that finds no entry for its room, or an empty
\* map, ends at once: it writes to no connection, invokes no cancel
\* function, raises nothing, and leaves the mutex free.
C10_EmptyRoomNoIO ==
  [][\A e \in Events :
       (/\ ppc[e] = "start"
        /\ ppc'[e] # "start"
        /\ (ev[e].room \notin DOMAIN subscribers \/ DOMAIN subscribers[ev[e].room] = {}))
       => /\ ppc'[e] = "done"
          /\ mu' = Free
          /\ UNCHANGED <<attempts, failed, cancelled, recv, ctxDone, cancelCalls,
                         crashed, subscribers>>]_vars

\* a fan-out has ended on a room whose map exists and is empty, another on
\* a room that has no entry
C10_Witness ==
  \E e \in Events, f \in Events :
    /\ ppc[e] = "done" /\ members[e] = {}
    /\ ev[e].room \in DOMAIN subscribers /\ DOMAIN subscribers[ev[e].room] = {}
    /\ ppc[f] = "done" /\ members[f] = {}
    /\ ev[f].room \notin DOMAIN subscribers

\* some write handler can take request e, the next one the server gets
CanServe(e) ==
  ENABLED (\E room \in RoomChoice, res \in Outcomes : handleCreateRoomMessage(e, room, res))

\* C11: a fan-out exists only for a request that has its success response
\* already (the response waited for nothing of the fan-out), whatever the
\* fan-out does the response stays the success status of the request's kind,
\* and the next request can still be served.
C11_FireAndForget ==
  \A e \in Events :
    /\ ppc[e] # "none" => rpc[e] = "responded" /\ rstatus[e] = OkStatus(ev[e].kind)
    /\ (rpc[e] = "idle" /\ \A f \in Events : f < e => rpc[f] # "idle") => CanServe(e)

\* the frame the spec documents for the created message "m1" with text "hi"
DocumentedFrame ==
  << <<"kind", KindMessageCreated>>,
     <<"value", << <<"id", "m1">>, <<"message", "hi">> >> >> >>

\* the keys of an encoded object
Keys(obj) == {obj[i][1] : i \in 1..Len(obj)}

\* C12: every frame a connection received has exactly the top-level keys
\* kind and value, so the room id is no part of it, and the frame of a
\* message_created event with id "m1" and text "hi" is the documented one.
C12_DocumentedWireShape ==
  \A c \in Conns : \A i \in 1..Len(wire[c]) :
    /\ Len(wire[c][i]) = 2
    /\ Keys(wire[c][i]) = {"kind", "value"}
    /\ (/\ ev[recv[c][i]].kind = KindMessageCreated
        /\ ev[recv[c][i]].value.ID = "m1"
        /\ ev[recv[c][i]].value.Message = "hi") => wire[c][i] = DocumentedFrame

Kinds ==
  {KindMessageCreated, KindMessageReactionIncreased,
   KindMessageReactionDecreased, KindMessageAnswered}

\* the step is the handler of the given kind taking request e for the room,
\* its lookups and mutation ending in res
Handles(e, kind, room, res) ==
  CASE kind = KindMessageCreated -> handleCreateRoomMessage(e, room, res)
    [] kind = KindMessageReactionIncreased -> handleReactToMessage(e, room, res)
    [] kind = KindMessageReactionDecreased -> handleRemoveReactionFromMessage(e, room, res)
    [] OTHER -> handleMarkMessageAsAnswered(e, room, res)

\* a request answered with an error has no fan-out and no event
NoEventOfFailed ==
  \A e \in Events :
    (rpc[e] = "responded" /\ rstatus[e] >= 400) =>
      /\ ppc[e] = "none"
      /\ ev[e].kind = NoKind /\ ev[e].room = NoRoom
      /\ \A c \in Conns : attempts[e][c] = 0 /\ e \notin Range(recv[c])

\* C13: a write handler whose room lookup, message lookup or mutation fails
\* starts no fan-out and builds no event; one that succeeds starts exactly
\* the fan-out of its own request, with the request's room id and the
\* handler's kind; and a fan-out is started by nothing but the handler of
\* its request, once.
C13_PublishOnlyAfterSuccess ==
  [][/\ \A e \in Events :
          rpc'[e] # rpc[e] =>
            \A kind \in Kinds, room \in Rooms, res \in Outcomes :
              Handles(e, kind, room, res) =>
                /\ \A f \in Events \ {e} : ppc'[f] = ppc[f]
                /\ IF res = "ok"
                     THEN /\ ppc[e] = "none" /\ ppc'[e] = "start"
                          /\ ev'[e].kind = kind /\ ev'[e].room = room
                     ELSE /\ ppc'[e] = ppc[e] /\ ppc[e] = "none"
                          /\ ev'[e].kind = NoKind /\ ev'[e].room = NoRoom
     /\ \A e \in Events :
          (ppc'[e] = "start" /\ ppc[e] # "start") =>
            \E kind \in Kinds, room \in Rooms : Handles(e, kind, room, "ok")
     /\ NoEventOfFailed']_vars

\* a request whose message was not found ended without a fan-out, and a
\* later reaction request succeeded and its one event reached a subscriber
C13_Witness ==
  \E e \in Events, f \in Events, c \in Conns :
    /\ rstatus[e] = 404 /\ ppc[e] = "none"
    /\ rstatus[f] = 200 /\ ppc[f] = "done"
    /\ ev[f].kind = KindMessageReactionIncreased
    /\ Copies(c, f) = 1

\* the place of a session in Accepted (1), Registered (2: registering under
\* the mutex), Active (3), Closing (4), Closed (5); 0 before Accepted
SessionState(s) ==
  CASE spc[s] = "accepted" -> 1
    [] spc[s] = "registering" -> 2
    [] spc[s] = "active" -> 3
    [] spc[s] = "deregistering" -> 4
    [] spc[s] \in {"closed", "panicked"} -> 5
    [] OTHER -> 0

\* the connection of the session is in the map of the session's room
InRegistry(s) ==
  /\ sroom[s] \in DOMAIN subscribers
  /\ sconn[s] \in DOMAIN subscribers[sroom[s]]

\* the registry and the transport are what the state of the session says
SessionConsistent(s) ==
  /\ SessionState(s) \in {1, 2, 5} => ~InRegistry(s)
  /\ SessionState(s) \in {3, 4} => InRegistry(s)
  /\ SessionState(s) = 4 => ctxDone[s]
  /\ SessionState(s) < 5 => closeCount[s] = 0
  /\ (SessionState(s) = 5 /\ sconn[s] # NilConn) => closeCount[s] = 1

\* C14: a session only ever moves to the next of its states, it is in the
\* registry exactly while Active or Closing (from its registration to its
\* deregistration, never again afterwards), it is Closing only with its
\* context cancelled, and its connection is closed when it is Closed.
C14_SessionLifecycle ==
  [][\A s \in Sessions :
       /\ SessionState(s)' \in {SessionState(s), SessionState(s) + 1}
       /\ SessionConsistent(s)']_vars

\* the (room, connection) pairs of a registry
Members(subs) ==
  {p \in Rooms \X Conns : p[1] \in DOMAIN subs /\ p[2] \in DOMAIN subs[p[1]]}

\* the same operation on the same pair (whatever the cancel function)
SameOp(a, b) == a.op = b.op /\ a.room = b.room /\ a.conn = b.conn

\* a sequence of operations without its consecutive duplicates
RECURSIVE Collapse(_)
Collapse(q) ==
  IF Len(q) <= 1 THEN q
  ELSE LET front == SubSeq(q, 1, Len(q) - 1)
       IN  IF SameOp(q[Len(q)], q[Len(q) - 1])
             THEN Collapse(front)
             ELSE Append(Collapse(front), q[Len(q)])

\* the registry a sequence of operations leaves, starting from the empty one
RECURSIVE Apply(_)
Apply(q) ==
  IF q = << >> THEN << >>
  ELSE LET o == q[Len(q)]
           subs == Apply(SubSeq(q, 1, Len(q) - 1))
       IN  IF o.op = "register"
             THEN register(subs, o.room, o.conn, o.cancel)
             ELSE deregister(subs, o.room, o.conn)

\* the operations of a sequence that are on the given pair
OnPair(q, p) == SelectSeq(q, LAMBDA o : o.room = p[1] /\ o.conn = p[2])

\* C15: after any sequence of register and deregister operations the
\* membership of the registry is the one the sequence without its
\* consecutive duplicates leaves, for the whole sequence and for the
\* operations on each (room, connection) pair; a pair is a member exactly
\* when the last operation on it was a register (registering a present key
\* leaves its one entry, deregistering an absent one changes nothing), and a
\* deregistration creates no room key.
C15_DuplicateOpsCollapse ==
  /\ subscribers = Apply(ops)
  /\ Members(subscribers) = Members(Apply(Collapse(ops)))
  /\ \A p \in Rooms \X Conns :
       LET mine == OnPair(ops, p)
       IN  /\ (p \in Members(subscribers)) = (p \in Members(Apply(Collapse(mine))))
           /\ (p \in Members(subscribers)) =
                (mine # << >> /\ mine[Len(mine)].op = "register")
  /\ DOMAIN subscribers = {ops[i].room : i \in {j \in 1..Len(ops) : ops[j].op = "register"}}

\* a deregistration of an absent pair, then the pair registered twice
C15_Witness ==
  /\ Len(ops) = 3
  /\ ops[1].op = "deregister"
  /\ ops[2].op = "register"
  /\ SameOp(ops[2], ops[3])
  /\ ops[1].room = ops[2].room /\ ops[1].conn = ops[2].conn
  /\ DOMAIN subscribers[ops[2].room] = {ops[2].conn}

\* the rooms some session has registered under so far
RoomsSubscribed == {sroom[s] : s \in {u \in Sessions : SessionState(u) >= 3}}

\* C16: no step removes a room key; a room key appears only in the step in
\* which a session registers under a room that had none; so the room keys
\* are exactly the rooms some session has registered under, whether or not
\* a connection is left in them.
C16_RoomKeysOnlyGrow ==
  [][/\ DOMAIN subscribers \subseteq DOMAIN subscribers'
     /\ \A r \in DOMAIN subscribers' \ DOMAIN subscribers :
          \E s \in Sessions :
            spc[s] = "registering" /\ spc'[s] = "active" /\ sroom[s] = r
     /\ DOMAIN subscribers' = RoomsSubscribed']_vars

\* the only subscriber a room ever had has deregistered and closed, and the
\* room's key is still there with an empty map
C16_Witness ==
  \E s \in Sessions :
    /\ spc[s] = "closed"
    /\ \A u \in Sessions \ {s} : sroom[u] # sroom[s]
    /\ sroom[s] \in DOMAIN subscribers
    /\ DOMAIN subscribers[sroom[s]] = {}

\* the fan-out is between its lookup and its return: in its send loop
Sending(e) == ppc[e] \in {"loop", "writing"}

\* the fan-out has called WriteJSON at least once
HasSent(e) == \E c \in Conns : attempts[e][c] > 0

\* C17: at most one fan-out is in its send loop, and it holds the mutex;
\* while one is in its loop every other fan-out that has sent anything has
\* ended (the sends of two fan-outs do not interleave); so two connections
\* that both got the frames of two fan-outs got them in the same order.
C17_FanoutsSerialized ==
  /\ \A e \in Events : Sending(e) => mu = ByNotify(e)
  /\ \A e \in Events, f \in Events :
       /\ (Sending(e) /\ Sending(f)) => e = f
       /\ (Sending(e) /\ f # e /\ HasSent(f)) => ppc[f] \in {"done", "panicked"}
  /\ \A c \in Conns, d \in Conns, e \in Events, f \in Events :
       (Pos(c, e) > 0 /\ Pos(c, f) > 0 /\ Pos(d, e) > 0 /\ Pos(d, f) > 0) =>
         ((Pos(c, e) < Pos(c, f)) = (Pos(d, e) < Pos(d, f)))

\* two fan-outs for the same room have ended, and two subscribers of the
\* room got the frames of both
C17_Witness ==
  \E c \in Conns, d \in Conns :
    /\ c # d
    /\ Len(recv[c]) = 2 /\ Len(recv[d]) = 2
    /\ recv[c] = recv[d]
    /\ recv[c][1] # recv[c][2]
    /\ \A e \in Events : ppc[e] = "done" /\ members[e] = {c, d}

\* the step is one of notifyClients: a fan-out that exists moves on
FanoutStep == \E e \in Events : ppc[e] # "none" /\ ppc'[e] # ppc[e]

\* C18: no step of notifyClients changes the registry, a failed write
\* included; the registry changes only in the step in which a session
\* registers or deregisters; and a connection whose write failed is in its
\* room's map for as long as its own session has not run its delete.
C18_FanoutLeavesRegistry ==
  [][/\ FanoutStep => subscribers' = subscribers
     /\ subscribers' # subscribers =>
          \E s \in Sessions :
            spc[s] \in {"registering", "deregistering"} /\ spc'[s] # spc[s]
     /\ \A e \in Events : \A c \in failed'[e] :
          deregCount'[c] = 0 => (sconn'[c] = c /\ InRegistry(c)')]_vars

\* the writes of two fan-outs to the same connection failed and both
\* invoked its cancel function, and the connection is still registered: its
\* session has not deregistered it yet
C18_Witness ==
  \E s \in Sessions :
    /\ \A e \in Events : s \in failed[e] /\ s \in cancelled[e]
    /\ cancelCalls[s] = MaxEvents
    /\ spc[s] = "active"
    /\ InRegistry(s)

\* the session is in h.mu.Lock() (api.go:122, or api.go:133 with its
\* context cancelled); the fan-out is in h.mu.Lock() (api.go:77)
SessionWantsLock(s) == spc[s] = "accepted" \/ (spc[s] = "active" /\ ctxDone[s])
FanoutWantsLock(e) == ppc[e] = "start"

\* the next step of the session, or of the fan-out, that holds the mutex
HolderStep ==
  \/ \E s \in Sessions : SubscribeRegister(s) \/ SubscribeDeregister(s)
  \/ \E e \in Events :
       \/ \E c \in Conns : NotifyNext(e, c)
       \/ NotifyWriteOk(e) \/ NotifyWriteFail(e) \/ NotifyWritePanic(e)
       \/ NotifyReturn(e)

\* a process takes the mutex
LockStep ==
  \/ \E s \in Sessions : SubscribeLock(s) \/ SubscribeRelock(s)
  \/ \E e \in Events : NotifyLock(e)

\* C19: the mutex is held exactly by a session between its Lock and its
\* Unlock and by a fan-out between its Lock and its return (so not by a
\* session waiting for its cancellation, and by no fan-out that has ended,
\* normally or in a panic); whoever holds it can take its next step,
\* the call of a cancel function included, without waiting for anything;
\* and while the process is alive and something waits for the mutex, the
\* holder can step or the mutex is free and can be taken.
C19_LockNeverDeadlocks ==
  /\ \A s \in Sessions :
       (mu = BySession(s)) = (spc[s] \in {"registering", "deregistering"})
  /\ \A e \in Events : (mu = ByNotify(e)) = Sending(e)
  /\ mu # Free => ENABLED HolderStep
  /\ \A e \in Events :
       (ppc[e] = "writing" /\ cur[e] # NilConn /\ broken[cur[e]]) =>
         ENABLED NotifyWriteFail(e)
  /\ (/\ ~crashed
      /\ \/ \E s \in Sessions : SessionWantsLock(s)
         \/ \E e \in Events : FanoutWantsLock(e)) =>
       \/ mu # Free /\ ENABLED HolderStep
       \/ mu = Free /\ ENABLED LockStep

\* a fan-out holds the mutex and is about to call the cancel function of a
\* connection whose write fails, while that connection's session, already
\* cancelled, and the other fan-out both wait for the mutex
C19_Witness ==
  \E e \in Events, f \in Events, s \in Sessions :
    /\ mu = ByNotify(e)
    /\ ppc[e] = "writing" /\ cur[e] = s /\ broken[s]
    /\ SessionWantsLock(s)
    /\ FanoutWantsLock(f)

====
